---- MODULE Spec2Model ----
(***************************************************************************)
(* Model of the mmrs crate (src/lib.rs): the MMBody payload with its       *)
(* to_json serialisation, and send_message, the #[tokio::main] wrapped     *)
(* HTTP POST.                                                              *)
(*                                                                         *)
(* Strings are sequences of one-character strings, so that serialisation   *)
(* is a computation on characters and its output is something a JSON       *)
(* lexer has to read back.                                                 *)
(***************************************************************************)
EXTENDS Integers, Sequences, FiniteSets, TLC

VARIABLES
    x,        \* the MMBody the caller holds: [field -> Option<String>]
    moved,    \* TRUE once to_json(self) has consumed x
    out,      \* the Result<String, MMRSError> of the last to_json
    last,     \* the last payload operation performed: "new", "set", "to_json"
    pc,       \* per task: position in send_message
    arg,      \* per task: the (uri, body) the call was given
    client,   \* per task: the reqwest::Client created by the call (0 = none)
    hops,     \* per task: redirects followed so far by the pending request
    wire,     \* per client: what is on the network for its connection
    log,      \* per task: HTTP requests issued / responses received by the call
    result,   \* per task: the Result<StatusCode, MMRSError> returned
    ticks     \* the caller on whose thread another task last took a step
              \* (0 = none yet)

bodyVars == <<x, moved, out, last>>
sendVars == <<pc, arg, client, hops, wire, log, result, ticks>>
vars == <<x, moved, out, last, pc, arg, client, hops, wire, log, result, ticks>>

----------------------------------------------------------------------------
(* Option<String>: None is the empty tuple, Some(v) the one-element tuple. *)
None == <<>>
Some(v) == <<v>>
IsNone(o) == o = <<>>
Unwrap(o) == o[1]

(* The string values the caller assigns.  Hello is the value of the tests; *)
(* Tricky holds the characters JSON must escape, and a colon.              *)
Hello == <<"H", "e", "l", "l", "o", ",", " ", "w", "o", "r", "l", "d", "!">>
Tricky == <<"\"", ":", "\\">>
Values == {Hello, Tricky}
Opt == {None} \cup {Some(v) : v \in Values}

(* Variant: r#type declared after props.  C2 depends on the order.         *)
FieldOrderSwapped ==
    <<"text", "channel", "username", "icon_url", "icon_emoji",
      "attachments", "props", "r#type">>

(* The fields of MMBody in declaration order, by Rust identifier.          *)
FieldOrder ==
    <<"text", "channel", "username", "icon_url", "icon_emoji",
      "attachments", "r#type", "props">>
Fields == {FieldOrder[i] : i \in 1..Len(FieldOrder)}

(* The name serde derives for a field: the identifier without the raw      *)
(* prefix, as characters.                                                  *)
WireName(f) ==
    CASE f = "text"        -> <<"t", "e", "x", "t">>
      [] f = "channel"     -> <<"c", "h", "a", "n", "n", "e", "l">>
      [] f = "username"    -> <<"u", "s", "e", "r", "n", "a", "m", "e">>
      [] f = "icon_url"    -> <<"i", "c", "o", "n", "_", "u", "r", "l">>
      [] f = "icon_emoji"  -> <<"i", "c", "o", "n", "_", "e", "m", "o", "j", "i">>
      [] f = "attachments" -> <<"a", "t", "t", "a", "c", "h", "m", "e", "n", "t", "s">>
      [] f = "r#type"      -> <<"t", "y", "p", "e">>
      [] f = "props"       -> <<"p", "r", "o", "p", "s">>

(* Variant: a constructor that presets channel.  C3 depends on new.        *)
MMBody_newWithChannel ==
    [f \in {"text", "channel", "username", "icon_url", "icon_emoji",
            "attachments", "r#type", "props"} |->
        IF f = "channel" THEN Some(Hello) ELSE None]

(* MMBody::new *)
MMBody_new == [f \in Fields |-> None]

(* Results.  Every result is a record of the same shape.                   *)
NoResult == [tag |-> "None", val |-> <<>>, kind |-> ""]
Ok(v) == [tag |-> "Ok", val |-> v, kind |-> ""]
Err(k) == [tag |-> "Err", val |-> <<>>, kind |-> k]

----------------------------------------------------------------------------
(* serde_json, compact formatter.                                          *)

(* format_escaped_str_contents: the characters that need a backslash.      *)
EscapeChar(c) ==
    IF c = "\"" THEN <<"\\", "\"">>
    ELSE IF c = "\\" THEN <<"\\", "\\">>
    ELSE <<c>>

RECURSIVE Escape(_)
Escape(s) == IF s = <<>> THEN <<>> ELSE EscapeChar(Head(s)) \o Escape(Tail(s))

(* serialize_str *)
SerializeStr(s) == <<"\"">> \o Escape(s) \o <<"\"">>

(* Serialize for Option<String>: serialize_none writes null.               *)
SerializeOption(o) ==
    IF IsNone(o) THEN <<"n", "u", "l", "l">> ELSE SerializeStr(Unwrap(o))

(* Variant: props declared without the skip attribute.  C1 depends on it.  *)
SkipSerializingButProps(f, o) == f # "props" /\ IsNone(o)

(* #[serde(skip_serializing_if = "Option::is_none")], set on every field.  *)
SkipSerializing(f, o) == IsNone(o)

(* SerializeStruct::serialize_field for fields i.. of the struct; first is *)
(* the Compound's State::First.                                            *)
RECURSIVE SerializeFields(_, _, _)
SerializeFields(p, i, first) ==
    IF i > Len(FieldOrder) THEN <<>>
    ELSE LET f == FieldOrder[i]
         IN  IF SkipSerializing(f, p[f])
             THEN SerializeFields(p, i + 1, first)
             ELSE (IF first THEN <<>> ELSE <<",">>)
                  \o SerializeStr(WireName(f)) \o <<":">>
                  \o SerializeOption(p[f])
                  \o SerializeFields(p, i + 1, FALSE)

(* json::to_string(&self) *)
json_to_string(p) == Ok(<<"{">> \o SerializeFields(p, 1, TRUE) \o <<"}">>)

(* map_err(MMRSError::BadJSONData) *)
MapJsonErr(r) == IF r.tag = "Err" THEN Err("BadJSONData") ELSE r

(* MMBody::to_json *)
to_json(p) == MapJsonErr(json_to_string(p))

----------------------------------------------------------------------------
(* Payload operations.                                                     *)

InitBody ==
    /\ x = MMBody_new
    /\ moved = FALSE
    /\ out = NoResult
    /\ last = "new"

(* let mut x = MMBody::new(); a new message is started and the previous    *)
(* body string goes out of scope.                                          *)
New ==
    /\ x' = MMBody_new
    /\ moved' = FALSE
    /\ out' = NoResult
    /\ last' = "new"
    /\ UNCHANGED sendVars

(* Variant: a setter that clears icon_url when icon_emoji is given.  C9    *)
(* depends on assignment touching one field.                               *)
SetFieldIconExclusive(f, v) ==
    /\ ~moved
    /\ x' = [x EXCEPT ![f] = v,
                      !["icon_url"] = IF f = "icon_emoji" /\ v # None THEN None
                                      ELSE IF f = "icon_url" THEN v ELSE @]
    /\ last' = "set"
    /\ UNCHANGED <<moved, out>>
    /\ UNCHANGED sendVars

(* x.f = v, a direct assignment to a pub field.                            *)
SetField(f, v) ==
    /\ ~moved
    /\ x' = [x EXCEPT ![f] = v]
    /\ last' = "set"
    /\ UNCHANGED <<moved, out>>
    /\ UNCHANGED sendVars

(* x.to_json(): consumes x.                                                *)
ToJson ==
    /\ ~moved
    /\ out' = to_json(x)
    /\ moved' = TRUE
    /\ last' = "to_json"
    /\ UNCHANGED x
    /\ UNCHANGED sendVars

----------------------------------------------------------------------------
(* send_message.                                                           *)

(* The number of tasks that call send_message, each on a thread of its     *)
(* own; every such thread also runs other, independent tasks.              *)
NumCallers == 2
Tasks == 1..NumCallers

(* reqwest's default redirect policy, the one Client::new() installs:      *)
(* Policy::limited(10).                                                    *)
MaxRedirects == 10

(* The bodies handed to send_message: what to_json made of the payload of  *)
(* the tests, and of a fresh payload.                                      *)
HelloBody == to_json([MMBody_new EXCEPT !["text"] = Some(Hello)]).val
EmptyBody == to_json(MMBody_new).val

(* One shape for everything a connection carries and a call records.       *)
Msg(k, m, u, b, s, l) ==
    [kind |-> k, method |-> m, uri |-> u, body |-> b, status |-> s, location |-> l]
NoMsg == Msg("none", "", "", <<>>, 0, "")
Request(m, u, b) == Msg("req", m, u, b, 0, "")
Response(s, l) == Msg("resp", "", "", <<>>, s, l)
Fault == Msg("fault", "", "", <<>>, 0, "")

(* The destinations.  The mock server answers as the mockito server of the *)
(* tests does: 200 to a POST of the expected body on "/", 501 to a request *)
(* no mock matches.  The other paths answer with a fixed status.           *)
MockRoot == "http://mock/"
MockMissing == "http://mock/missing"
MockMoved == "http://mock/moved"
MockFound == "http://mock/found"
MockBare == "http://mock/bare"
MockLoop == "http://mock/loop"
Refused == "http://127.0.0.1:1/"
NotAUri == "not a uri"

Reachable(u) == u \in {MockRoot, MockMissing, MockMoved, MockFound, MockBare, MockLoop}

Server(req) ==
    CASE req.uri = MockRoot ->
           IF req.method = "POST" /\ req.body = HelloBody
           THEN Response(200, "") ELSE Response(501, "")
      [] req.uri = MockMissing -> Response(404, "")
      [] req.uri = MockMoved   -> Response(307, MockRoot)
      [] req.uri = MockFound   -> Response(302, MockMissing)
      [] req.uri = MockBare    -> Response(302, "")
      [] req.uri = MockLoop    -> Response(302, MockLoop)

(* RequestBuilder: post(uri) keeps the error of a uri that does not parse, *)
(* and send() then fails without a request.                                *)
ValidUri(u) == u # NotAUri

(* reqwest, Pending::poll: which responses the client follows, and with    *)
(* what request.  A body made from a String can be sent again.             *)
IsRedirect(resp) ==
    /\ resp.status \in {301, 302, 303, 307, 308}
    /\ resp.location # ""

RedirectRequest(req, resp) ==
    IF resp.status \in {301, 302, 303}
    THEN Request(IF req.method \in {"GET", "HEAD"} THEN req.method ELSE "GET",
                 resp.location, <<>>)
    ELSE Request(req.method, resp.location, req.body)

(* redirect::Policy::check for Policy::limited: previous holds the urls    *)
(* requested so far, the current one included.                             *)
PolicyFollows(followed) == followed + 1 < MaxRedirects

(* Variant: the transport error mapped to the wrong kind.  C5 depends on   *)
(* the mapping.                                                            *)
MapReqwestErrAsJson == Err("BadJSONData")

(* map_err(MMRSError::HTTPRequestError) *)
MapReqwestErr == Err("HTTPRequestError")

(* block_on of #[tokio::main]: the calling thread is parked until the      *)
(* future completes, so nothing else runs on it.                           *)
ThreadBlocked(t) == pc[t] = "awaiting"

(* Variant: one client shared by every call.  C10 depends on each call     *)
(* having its own.                                                         *)
SharedClient(t) == 1

(* Client::new(): a client of the call's own, named after the calling     *)
(* task.                                                                   *)
NewClient(t) == t

InitSend ==
    /\ pc = [t \in Tasks |-> "idle"]
    /\ arg = [t \in Tasks |-> NoMsg]
    /\ client = [t \in Tasks |-> 0]
    /\ hops = [t \in Tasks |-> 0]
    /\ wire = [c \in Tasks |-> NoMsg]
    /\ log = [t \in Tasks |-> <<>>]
    /\ result = [t \in Tasks |-> NoResult]
    /\ ticks = 0

Init == InitBody /\ InitSend

(* The call, up to its first suspension.  inRuntime: the caller runs       *)
(* inside a tokio runtime, where block_on panics.                          *)
Call(t, uri, body, inRuntime) ==
    /\ pc[t] = "idle"
    /\ arg' = [arg EXCEPT ![t] = Request("POST", uri, body)]
    /\ hops' = [hops EXCEPT ![t] = 0]
    /\ IF inRuntime
       THEN /\ pc' = [pc EXCEPT ![t] = "panicked"]
            /\ result' = [result EXCEPT ![t] = NoResult]
            /\ log' = [log EXCEPT ![t] = <<>>]
            /\ UNCHANGED <<client, wire>>
       ELSE IF ~ValidUri(uri)
       THEN /\ pc' = [pc EXCEPT ![t] = "returned"]
            /\ result' = [result EXCEPT ![t] = MapReqwestErr]
            /\ log' = [log EXCEPT ![t] = <<>>]
            /\ UNCHANGED <<client, wire>>
       ELSE LET c == NewClient(t)
                req == Request("POST", uri, body)
            IN  /\ pc' = [pc EXCEPT ![t] = "awaiting"]
                /\ client' = [client EXCEPT ![t] = c]
                /\ wire' = [wire EXCEPT ![c] = req]
                /\ log' = [log EXCEPT ![t] = <<req>>]
                /\ result' = [result EXCEPT ![t] = NoResult]
    /\ UNCHANGED ticks
    /\ UNCHANGED bodyVars

(* The server answers the request on a connection.                         *)
ServerRespond(c) ==
    /\ wire[c].kind = "req"
    /\ Reachable(wire[c].uri)
    /\ wire' = [wire EXCEPT ![c] = Server(wire[c])]
    /\ UNCHANGED <<pc, arg, client, hops, log, result, ticks>>
    /\ UNCHANGED bodyVars

(* The exchange breaks: connection refused, DNS failure, timeout, TLS      *)
(* failure, reset.  The only fate of a request to an unreachable host.     *)
TransportFault(c) ==
    /\ wire[c].kind \in {"req", "resp"}
    /\ wire' = [wire EXCEPT ![c] = Fault]
    /\ UNCHANGED <<pc, arg, client, hops, log, result, ticks>>
    /\ UNCHANGED bodyVars

(* Variant: error statuses turned into errors, as error_for_status would.  *)
(* C4 depends on the status being passed through.                          *)
StatusResultChecked(resp) ==
    IF resp.status >= 400 THEN Err("HTTPRequestError") ELSE Ok(resp.status)

(* .status() and Ok(status_code): the status is returned as it came.       *)
StatusResult(resp) == Ok(resp.status)

(* The call returns, dropping its client and its runtime.                  *)
Return(t, r) ==
    /\ pc' = [pc EXCEPT ![t] = "returned"]
    /\ result' = [result EXCEPT ![t] = r]
    /\ wire' = [wire EXCEPT ![client[t]] = NoMsg]
    /\ client' = [client EXCEPT ![t] = 0]
    /\ UNCHANGED hops

(* Variant: the request is sent again after a transport failure.  C7       *)
(* depends on the failure ending the call.                                 *)
OnFaultRetry(t, m) ==
    /\ wire' = [wire EXCEPT ![client[t]] = log[t][Len(log[t])]]
    /\ log' = [log EXCEPT ![t] = Append(Append(@, m), log[t][Len(log[t])])]
    /\ UNCHANGED <<pc, result, client, hops>>

(* send().await yields Err: the ? operator returns it, mapped.             *)
OnFault(t, m) ==
    /\ Return(t, MapReqwestErr)
    /\ log' = [log EXCEPT ![t] = Append(@, m)]

(* send().await yields a response the client does not follow.              *)
OnResponse(t, m) ==
    /\ Return(t, StatusResult(m))
    /\ log' = [log EXCEPT ![t] = Append(@, m)]

(* The client meets a redirect: it follows it with a new request on the    *)
(* same connection, or gives up with an error when the policy says so.     *)
OnRedirect(t, m) ==
    IF PolicyFollows(hops[t])
    THEN LET next == RedirectRequest(log[t][Len(log[t])], m)
         IN  /\ hops' = [hops EXCEPT ![t] = @ + 1]
             /\ wire' = [wire EXCEPT ![client[t]] = next]
             /\ log' = [log EXCEPT ![t] = Append(Append(@, m), next)]
             /\ UNCHANGED <<pc, result, client>>
    ELSE /\ Return(t, MapReqwestErr)
         /\ log' = [log EXCEPT ![t] = Append(@, m)]

(* The runtime polls the send() future with news on its connection.        *)
Receive(t) ==
    /\ pc[t] = "awaiting"
    /\ LET m == wire[client[t]]
       IN  /\ m.kind \in {"resp", "fault"}
           /\ IF m.kind = "fault" THEN OnFault(t, m)
              ELSE IF IsRedirect(m) THEN OnRedirect(t, m)
              ELSE OnResponse(t, m)
    /\ UNCHANGED <<arg, ticks>>
    /\ UNCHANGED bodyVars

(* The caller has looked at the result and is ready for another call.      *)
Collect(t) ==
    /\ pc[t] = "returned"
    /\ pc' = [pc EXCEPT ![t] = "idle"]
    /\ arg' = [arg EXCEPT ![t] = NoMsg]
    /\ log' = [log EXCEPT ![t] = <<>>]
    /\ result' = [result EXCEPT ![t] = NoResult]
    /\ hops' = [hops EXCEPT ![t] = 0]
    /\ UNCHANGED <<client, wire, ticks>>
    /\ UNCHANGED bodyVars

(* Another task of the scheduler that runs on caller t's thread takes a    *)
(* step of its own.                                                        *)
Tick(t) ==
    /\ ~ThreadBlocked(t)
    /\ ticks' = t
    /\ UNCHANGED <<pc, arg, client, hops, wire, log, result>>
    /\ UNCHANGED bodyVars

----------------------------------------------------------------------------
(* Specifications.                                                         *)

Destinations ==
    {MockRoot, MockMissing, MockMoved, MockFound, MockBare, MockLoop, Refused, NotAUri}
Bodies == {HelloBody, EmptyBody}

(* The destinations of the concurrent callers.                             *)
ConcDestinations == {MockRoot, MockMoved, Refused}

(* The payload: construction, field assignment, serialisation.             *)
NextBody ==
    \/ New
    \/ \E f \in Fields, v \in Opt : SetField(f, v)
    \/ ToJson

SpecBody == Init /\ [][NextBody]_vars

(* One caller of send_message, every destination.                          *)
Next ==
    \/ \E u \in Destinations, b \in Bodies, r \in BOOLEAN : Call(1, u, b, r)
    \/ ServerRespond(1)
    \/ TransportFault(1)
    \/ Receive(1)
    \/ Collect(1)
    \/ Tick(1)

Spec == Init /\ [][Next]_vars

(* Concurrent callers of send_message.                                     *)
NextConc ==
    \/ \E t \in Tasks, u \in ConcDestinations, b \in Bodies, r \in BOOLEAN :
          Call(t, u, b, r)
    \/ \E c \in Tasks : ServerRespond(c)
    \/ \E c \in Tasks : TransportFault(c)
    \/ \E t \in Tasks : Receive(t)
    \/ \E t \in Tasks : Collect(t)
    \/ \E t \in Tasks : Tick(t)

SpecConc == Init /\ [][NextConc]_vars

----------------------------------------------------------------------------
(* Reading JSON back: a lexer for the text to_json produced, independent   *)
(* of how it was written.                                                  *)

Whitespace == {" ", "\t", "\n", "\r"}
Punctuation == {"{", "}", ":", ","}

Token(k, v) == [kind |-> k, val |-> v]

(* The index of the quote that closes a string whose contents start at i.  *)
RECURSIVE StrEnd(_, _)
StrEnd(s, i) ==
    IF i > Len(s) THEN i
    ELSE IF s[i] = "\\" THEN StrEnd(s, i + 2)
    ELSE IF s[i] = "\"" THEN i
    ELSE StrEnd(s, i + 1)

(* The index after the run of literal characters (null, true, ...) at i.   *)
RECURSIVE LitEnd(_, _)
LitEnd(s, i) ==
    IF i > Len(s) \/ s[i] \in Whitespace \cup Punctuation \cup {"\""} THEN i
    ELSE LitEnd(s, i + 1)

RECURSIVE Unescape(_)
Unescape(s) ==
    IF s = <<>> THEN <<>>
    ELSE IF Head(s) = "\\" /\ Len(s) >= 2 THEN <<s[2]>> \o Unescape(Tail(Tail(s)))
    ELSE <<Head(s)>> \o Unescape(Tail(s))

RECURSIVE Lex(_, _)
Lex(s, i) ==
    IF i > Len(s) THEN <<>>
    ELSE IF s[i] = "\""
    THEN LET e == StrEnd(s, i + 1)
         IN  <<Token("str", Unescape(SubSeq(s, i + 1, e - 1)))>> \o Lex(s, e + 1)
    ELSE IF s[i] \in Punctuation THEN <<Token("punct", <<s[i]>>)>> \o Lex(s, i + 1)
    ELSE IF s[i] \in Whitespace THEN <<Token("ws", <<s[i]>>)>> \o Lex(s, i + 1)
    ELSE LET e == LitEnd(s, i)
         IN  <<Token("lit", SubSeq(s, i, e - 1))>> \o Lex(s, e)

Tokens(s) == Lex(s, 1)

(* The tokens without the whitespace between them.                         *)
Significant(toks) == SelectSeq(toks, LAMBDA k : k.kind # "ws")

Punct(c) == Token("punct", <<c>>)

(* A flat JSON object: { key : value , key : value ... }                   *)
MemberCount(toks) == Len(toks) \div 4

IsObject(toks) ==
    /\ Len(toks) >= 2
    /\ Len(toks) = (IF MemberCount(toks) = 0 THEN 2 ELSE 4 * MemberCount(toks) + 1)
    /\ toks[1] = Punct("{")
    /\ toks[Len(toks)] = Punct("}")
    /\ \A j \in 1..MemberCount(toks) :
          /\ toks[4 * j - 2].kind = "str"
          /\ toks[4 * j - 1] = Punct(":")
          /\ toks[4 * j].kind \in {"str", "lit"}
          /\ j < MemberCount(toks) => toks[4 * j + 1] = Punct(",")

KeySeq(toks) == [j \in 1..MemberCount(toks) |-> toks[4 * j - 2].val]
ValueSeq(toks) == [j \in 1..MemberCount(toks) |-> toks[4 * j]]
KeySet(toks) == {KeySeq(toks)[j] : j \in 1..MemberCount(toks)}

(* The fields of a payload that hold a value.                              *)
SetFields(p) == {f \in Fields : p[f] # None}

----------------------------------------------------------------------------
(* C1: whatever subset of the eight fields is set, to_json returns a JSON  *)
(* object whose keys are exactly the set fields, r#type under the key      *)
(* "type"; no key appears twice, no other key appears, and an unset field  *)
(* appears neither as null nor otherwise.                                  *)
C1_KeysAreSetFields ==
    (last = "to_json") =>
        /\ out.tag = "Ok"
        /\ LET toks == Significant(Tokens(out.val))
           IN  /\ IsObject(toks)
               /\ KeySet(toks) = {WireName(f) : f \in SetFields(x)}
               /\ MemberCount(toks) = Cardinality(SetFields(x))
               /\ \A j \in 1..MemberCount(toks) : ValueSeq(toks)[j].kind = "str"
               /\ ("r#type" \in SetFields(x)) <=> (<<"t", "y", "p", "e">> \in KeySet(toks))

C1_Witness ==
    /\ last = "to_json"
    /\ out.tag = "Ok"
    /\ SetFields(x) = {"channel", "r#type", "props"}

(* C2: the keys of the text to_json returns come in the declaration order  *)
(* text, channel, username, icon_url, icon_emoji, attachments, type,       *)
(* props, restricted to the set fields, with no whitespace between tokens; *)
(* a payload with only text = "Hello, world!" gives {"text":"Hello,        *)
(* world!"} character for character.                                       *)
ClaimedOrder ==
    << <<"t", "e", "x", "t">>,
       <<"c", "h", "a", "n", "n", "e", "l">>,
       <<"u", "s", "e", "r", "n", "a", "m", "e">>,
       <<"i", "c", "o", "n", "_", "u", "r", "l">>,
       <<"i", "c", "o", "n", "_", "e", "m", "o", "j", "i">>,
       <<"a", "t", "t", "a", "c", "h", "m", "e", "n", "t", "s">>,
       <<"t", "y", "p", "e">>,
       <<"p", "r", "o", "p", "s">> >>

ExpectedHelloJson ==
    <<"{", "\"", "t", "e", "x", "t", "\"", ":", "\"",
      "H", "e", "l", "l", "o", ",", " ", "w", "o", "r", "l", "d", "!",
      "\"", "}">>

HelloOnly == [MMBody_new EXCEPT !["text"] = Some(Hello)]

C2_OrderedCompact ==
    (last = "to_json") =>
        /\ out.tag = "Ok"
        /\ LET toks == Tokens(out.val)
           IN  /\ \A i \in 1..Len(toks) : toks[i].kind # "ws"
               /\ IsObject(toks)
               /\ KeySeq(toks) =
                     SelectSeq(ClaimedOrder, LAMBDA k : k \in KeySet(toks))
        /\ (x = HelloOnly) => (out.val = ExpectedHelloJson)

C2_Witness ==
    /\ last = "to_json"
    /\ out.tag = "Ok"
    /\ x["text"] = Some(Hello)
    /\ x["props"] = Some(Tricky)
    /\ x["attachments"] = Some(Hello)
    /\ x["channel"] = None

(* C3: MMBody::new needs no input and cannot fail, the payload it returns  *)
(* has all eight fields unset, and to_json of that payload is {}.          *)
C3_FreshIsEmpty ==
    /\ ENABLED New
    /\ (last = "new") => (~moved /\ \A f \in Fields : x[f] = None)
    /\ (last = "to_json" /\ \A f \in Fields : x[f] = None) => (out = Ok(<<"{", "}">>))

C3_Witness ==
    /\ last = "to_json"
    /\ \A f \in Fields : x[f] = None
    /\ out.tag = "Ok"

(* C9: assigning v to a field f makes f read v and leaves the other seven  *)
(* fields as they were, after any earlier assignments; and no combination  *)
(* of values is refused: on a payload not yet consumed every assignment is *)
(* possible.                                                               *)
C9_AssignOneField ==
    /\ [][\A f \in Fields, v \in Opt :
            SetField(f, v) =>
                /\ x'[f] = v
                /\ \A g \in Fields \ {f} : x'[g] = x[g]]_vars
    /\ [](~moved => \A f \in Fields, v \in Opt : ENABLED SetField(f, v))

C9_Witness ==
    /\ last = "set"
    /\ x["text"] = Some(Hello)
    /\ x["icon_emoji"] = Some(Tricky)
    /\ x["icon_url"] = Some(Hello)
    /\ x["props"] = None

----------------------------------------------------------------------------
(* What a call's own record of its exchange says.                          *)

LastOf(q) == q[Len(q)]
NumOf(q, k) == Cardinality({i \in 1..Len(q) : q[i].kind = k})
InCall(t) == pc[t] \in {"awaiting", "returned"}

(* A response the client follows instead of returning: one of the five     *)
(* redirect statuses, with a Location.                                     *)
Followable(m) ==
    /\ m.kind = "resp"
    /\ m.status \in {301, 302, 303, 307, 308}
    /\ m.location # ""

C5_FaultIsHttpError ==
    \A t \in Tasks :
        /\ (pc[t] = "returned" /\ (log[t] = <<>> \/ LastOf(log[t]).kind = "fault"))
              => result[t] = Err("HTTPRequestError")
        /\ result[t].kind # "BadJSONData"
        /\ (result[t].tag = "Err") => (result[t].kind = "HTTPRequestError")

C5_Witness ==
    /\ pc[1] = "returned"
    /\ arg[1].uri = Refused
    /\ LastOf(log[1]).kind = "fault"
    /\ result[1].tag = "Err"

(* C6: every call of send_message, from any calling context, a caller      *)
(* inside an asynchronous runtime included, ends in a returned result      *)
(* value and never in a panic.                                             *)
C6_NeverPanics ==
    \A t \in Tasks : pc[t] # "panicked"

C8_OthersCanStep ==
    \A t \in Tasks : (pc[t] = "awaiting") => ENABLED Tick(t)

(* C10: of the calls that run at the same time, each has a client of its   *)
(* own, which it drops when it returns; the requests a call issues are its *)
(* own destination and body and what the server's answers to them lead to; *)
(* every response it receives is the server's answer to its own request;   *)
(* and its result is the outcome of its own exchange.                      *)
C10_CallsIndependent ==
    \A t \in Tasks :
        /\ (pc[t] = "awaiting") <=> (client[t] # 0)
        /\ \A u \in Tasks \ {t} :
              (pc[t] = "awaiting" /\ pc[u] = "awaiting") => client[t] # client[u]
        /\ (log[t] # <<>>) => (log[t][1] = Request("POST", arg[t].uri, arg[t].body))
        /\ \A i \in 1..Len(log[t]) :
              (log[t][i].kind = "resp") =>
                  /\ i > 1
                  /\ log[t][i - 1].kind = "req"
                  /\ log[t][i] = Server(log[t][i - 1])
        /\ (pc[t] = "awaiting") =>
              LET m == wire[client[t]]
              IN  /\ m.kind # "none"
                  /\ LastOf(log[t]).kind = "req"
                  /\ (m.kind = "req") => (m = LastOf(log[t]))
                  /\ (m.kind = "resp") => (m = Server(LastOf(log[t])))
        /\ (pc[t] = "returned" /\ result[t].tag = "Ok") =>
              (result[t].val = LastOf(log[t]).status)

C10_Witness ==
    /\ pc[1] = "awaiting"
    /\ pc[2] = "awaiting"
    /\ arg[1] # arg[2]
    /\ hops[1] = 1
    /\ wire[client[1]].kind = "resp"
    /\ wire[client[2]].kind = "fault"

====
